---- MODULE Spec2Model ----
(***************************************************************************)
(* A model of the recipe-sharing web application in src/app.py.            *)
(*                                                                         *)
(* The state is the three MongoDB collections the handlers write (users,   *)
(* recipes, comments), the signed session cookie each browser holds, the   *)
(* position of the request each browser has in flight, and the response    *)
(* the browser received last.  Every database call (find_one, insert_one,  *)
(* update, update_one, remove, count, the evaluation of a cursor) is one   *)
(* atomic step; the computation a handler does between two database calls  *)
(* is local to the request and belongs to the step of the call before or   *)
(* after it.  Requests of different browsers interleave at these steps.    *)
(***************************************************************************)
EXTENDS Integers, Sequences, FiniteSets, TLC

VARIABLES
    users,      \* mongo.db.users: the documents in insertion order
    recipes,    \* mongo.db.recipes: a set of documents, each with its _id
    comments,   \* mongo.db.comments: the documents in insertion order
    nextId,     \* the next ObjectId the recipes collection hands out
    today,      \* the day datetime.now() falls on, in days since the epoch
    session,    \* per browser: the session cookie (user, name)
    req,        \* per browser: the request in flight, or Idle
    resp        \* per browser: the response to its last finished request

vars == <<users, recipes, comments, nextId, today, session, req, resp>>

(***************************************************************************)
(* Bounds of the model.                                                    *)
(***************************************************************************)
MaxUsers == 2       \* user documents ever inserted
MaxRecipes == 2     \* recipes ever uploaded
MaxComments == 2    \* comments ever inserted
MaxFav == 2         \* $push requests accepted per recipe
MaxDay == 1         \* days the clock advances
MaxListed == 13     \* recipes in the database the listing pages show
MaxPage == 4        \* the largest ?page= a listing is asked for
MaxShelf == 3       \* recipes in the database the category filter searches

Clients == {"b1", "b2"}

\* What the forms submit.
Names == {"Ann", "Bea"}
Usernames == {"alice", "Alice", "bob"}
\* A string that is compared with a stored hash is written as the sequence of
\* its '$'-separated parts, a hash being method$salt$digest.
Passwords == {<<"hunter2">>, <<"hunter3">>}

\* A missing key of a dict (session.get gives None, session[...] raises).
Absent == "<absent>"
\* find_one found nothing.
None == [none |-> TRUE]

(***************************************************************************)
(* Program constants (src/app.py:39-40).                                   *)
(***************************************************************************)
DEFAULT_PROFILE_PICTURE ==
    "https://res.cloudinary.com/epic-food-photo-storage/image/upload/v1626176413/profile-images/profile_avatar_k5035g.png"
DEFAULT_RECIPE_PICTURE ==
    "https://res.cloudinary.com/epic-food-photo-storage/image/upload/v1627730195/recipe-images/food_avatar_mmbalr.jpg"

(***************************************************************************)
(* str.lower() on the submitted usernames.                                 *)
(***************************************************************************)
lower(s) ==
    CASE s = "Alice" -> "alice"
      [] s = "Bob" -> "bob"
      [] OTHER -> s

(***************************************************************************)
(* werkzeug.security: the stored value is method$salt$digest, the salt     *)
(* drawn at random and the digest computed from the salt and the password; *)
(* checking recomputes the digest with the stored salt.                    *)
(***************************************************************************)
Salts == {"s1"}

Digest(salt, password) == <<salt, password>>

generate_password_hash(password, salt) ==
    <<"pbkdf2:sha256", salt, Digest(salt, password)>>

check_password_hash(pwhash, password) ==
    pwhash[3] = Digest(pwhash[2], password)

(***************************************************************************)
(* collection.find_one({"username": username}) on users: the first         *)
(* matching document in natural (insertion) order, or None.                *)
(***************************************************************************)
Matching(coll, username) ==
    {i \in 1..Len(coll) : coll[i].username = username}

find_one_user(coll, username) ==
    IF Matching(coll, username) = {} THEN None
    ELSE coll[CHOOSE i \in Matching(coll, username) :
                 \A j \in Matching(coll, username) : i <= j]

\* The lookup both account handlers start with (lines 138-139, 167-168).
existing_user_raw(username) == find_one_user(users, username)

existing_user_of(username) == find_one_user(users, lower(username))

(***************************************************************************)
(* Sessions, requests, responses.                                          *)
(***************************************************************************)
Anonymous == [user |-> Absent, name |-> Absent]

Idle == [op |-> "idle"]

\* No response yet (a request is in flight, or none was ever made).
NoResp == [status |-> "none", line |-> 0, flash |-> <<>>, target |-> "", view |-> None]

\* return redirect(url_for(target)) at source line `line`, after flash(msg).
Redirect(line, flash, target) ==
    [status |-> "redirect", line |-> line, flash |-> flash, target |-> target,
     view |-> None]

\* return render_template(...) at source line `line` with the data `view`.
Render(line, view) ==
    [status |-> "render", line |-> line, flash |-> <<>>, target |-> "", view |-> view]

\* An exception no handler catches, raised at source line `line`: Flask
\* answers 500.  What was flashed before stays queued in the session.
ServerError(line, flash) ==
    [status |-> "error", line |-> line, flash |-> flash, target |-> "", view |-> None]

InFlight(op) == {c \in Clients : req[c] # Idle /\ req[c].op = op}

\* The answers of register and login that end a request without a session.
username_exists == Redirect(143, <<"Username already exists">>, "register")

invalid_password ==
    Redirect(184, <<"Incorrect Username or Password, please try again!">>, "login")

no_such_user_told == Redirect(188, <<"Unknown username">>, "login")

no_such_user ==
    Redirect(188, <<"Incorrect Username or Password, please try again!">>, "login")

(***************************************************************************)
(* register (POST), src/app.py:134-160.                                    *)
(* First step: the lookup of line 138 and, when a user is found, the       *)
(* Conflict answer of lines 142-143.                                       *)
(***************************************************************************)
register(c, name, username, password) ==
    /\ req[c] = Idle
    /\ LET existing_user == existing_user_of(username)
       IN  IF existing_user # None
           THEN /\ resp' = [resp EXCEPT ![c] = username_exists]
                /\ UNCHANGED req
           ELSE /\ Len(users) + Cardinality(InFlight("register")) < MaxUsers
                /\ req' = [req EXCEPT ![c] =
                       [op |-> "register", name |-> name, username |-> username,
                        password |-> password]]
                /\ resp' = [resp EXCEPT ![c] = NoResp]
    /\ UNCHANGED <<users, recipes, comments, nextId, today, session>>

(***************************************************************************)
(* register, second step: insert_one of line 152, then the session of      *)
(* lines 155-156 and the answer of lines 157-158.                          *)
(***************************************************************************)
register_insert(c) ==
    /\ req[c] # Idle /\ req[c].op = "register"
    /\ \E salt \in Salts :
         users' = Append(users,
            [name |-> req[c].name,
             username |-> lower(req[c].username),
             password |-> generate_password_hash(req[c].password, salt),
             profile_picture |-> DEFAULT_PROFILE_PICTURE])
    /\ session' = [session EXCEPT ![c] =
            [user |-> lower(req[c].username), name |-> req[c].name]]
    /\ resp' = [resp EXCEPT ![c] =
            Redirect(158, <<"Registration Successful!">>, "profile")]
    /\ req' = [req EXCEPT ![c] = Idle]
    /\ UNCHANGED <<recipes, comments, nextId, today>>

(***************************************************************************)
(* login (POST), src/app.py:163-190.                                       *)
(* First step: the lookup of line 167, the password check of line 172 and  *)
(* the two failure answers; on success session["user"] is set (line 174)   *)
(* in the request's copy of the session.                                   *)
(***************************************************************************)
login(c, username, password) ==
    /\ req[c] = Idle
    /\ LET existing_user == existing_user_of(username)
       IN  IF existing_user # None
           THEN IF check_password_hash(existing_user.password, password)
                THEN /\ req' = [req EXCEPT ![c] =
                            [op |-> "login", username |-> username,
                             password |-> password]]
                     /\ resp' = [resp EXCEPT ![c] = NoResp]
                ELSE /\ resp' = [resp EXCEPT ![c] = invalid_password]
                     /\ UNCHANGED req
           ELSE /\ resp' = [resp EXCEPT ![c] = no_such_user]
                /\ UNCHANGED req
    /\ UNCHANGED <<users, recipes, comments, nextId, today, session>>

(***************************************************************************)
(* login, second step: the lookup of line 175 for the display name, the    *)
(* welcome of line 177 and the redirect of line 179; the session is saved  *)
(* with the response.                                                      *)
(***************************************************************************)
login_name(c) ==
    /\ req[c] # Idle /\ req[c].op = "login"
    /\ LET user == lower(req[c].username)
           name == find_one_user(users, user).name
       IN  /\ session' = [session EXCEPT ![c] = [user |-> user, name |-> name]]
           /\ resp' = [resp EXCEPT ![c] =
                  Redirect(180, <<"Great to see you, ", name>>, "profile")]
    /\ req' = [req EXCEPT ![c] = Idle]
    /\ UNCHANGED <<users, recipes, comments, nextId, today>>

(***************************************************************************)
(* logout, src/app.py:222-227: session.pop raises KeyError on a missing    *)
(* key, after the flash of line 224.                                       *)
(***************************************************************************)
logout_pop_user(c) ==
    /\ req[c] = Idle
    /\ IF session[c].user = Absent
       THEN /\ resp' = [resp EXCEPT ![c] =
                   ServerError(225, <<"You have been successfully logged out!">>)]
            /\ UNCHANGED session
       ELSE /\ session' = [session EXCEPT ![c].user = Absent]
            /\ resp' = [resp EXCEPT ![c] =
                   Redirect(227, <<"You have been successfully logged out!">>,
                            "get_recipes")]
    /\ UNCHANGED <<users, recipes, comments, nextId, today, req>>

logout(c) ==
    /\ req[c] = Idle
    /\ IF session[c].user = Absent
       THEN /\ resp' = [resp EXCEPT ![c] =
                   ServerError(225, <<"You have been successfully logged out!">>)]
            /\ UNCHANGED session
       ELSE /\ session' = [session EXCEPT ![c] = Anonymous]
            /\ resp' = [resp EXCEPT ![c] =
                   Redirect(227, <<"You have been successfully logged out!">>,
                            "get_recipes")]
    /\ UNCHANGED <<users, recipes, comments, nextId, today, req>>

(***************************************************************************)
(* The account handlers on an empty database, requests interleaving.       *)
(***************************************************************************)
Init ==
    /\ users = <<>>
    /\ recipes = {}
    /\ comments = <<>>
    /\ nextId = 1
    /\ today = 0
    /\ session = [c \in Clients |-> Anonymous]
    /\ req = [c \in Clients |-> Idle]
    /\ resp = [c \in Clients |-> NoResp]

AccountStep(c) ==
    \/ \E name \in Names, username \in Usernames, password \in Passwords :
          register(c, name, username, password)
    \/ register_insert(c)
    \/ \E username \in Usernames, password \in Passwords :
          login(c, username, password)
    \/ login_name(c)
    \/ logout(c)

AccountNext == \E c \in Clients : AccountStep(c)

SpecAccount == Init /\ [][AccountNext]_vars

\* One request at a time: a browser's request runs to its response before
\* any other browser's request starts.
Alone(c) == \A d \in Clients \ {c} : req[d] = Idle

AccountSeqNext ==
    \E c \in Clients :
       \/ \E name \in Names, username \in Usernames, password \in Passwords :
             Alone(c) /\ register(c, name, username, password)
       \/ Alone(c) /\ register_insert(c)
       \/ \E username \in Usernames, password \in Passwords :
             Alone(c) /\ login(c, username, password)
       \/ Alone(c) /\ login_name(c)
       \/ Alone(c) /\ logout(c)

SpecAccountSeq == Init /\ [][AccountSeqNext]_vars

(***************************************************************************)
(* The recipe handlers.                                                    *)
(***************************************************************************)
\* request.form of the upload and edit forms, under the forms' field names.
Forms ==
    {[recipename |-> "Tomato soup", description |-> "A soup",
      recipe_category |-> "Soup", level |-> "Easy", servings |-> "2",
      preptime |-> "10", cooktime |-> "20",
      ingredients |-> <<"tomato", "salt">>, method |-> <<"chop", "boil">>],
     [recipename |-> "Green salad", description |-> "A salad",
      recipe_category |-> "Salad", level |-> "Hard", servings |-> "4",
      preptime |-> "15", cooktime |-> "0",
      ingredients |-> <<"lettuce">>, method |-> <<"wash", "toss">>]}

\* request.files['file']: falsy when the form carried no file.
NoFile == "<no file>"
Files == {NoFile, "photo.jpg"}

\* What cloudinary.uploader.upload(...)["url"] returns, or the call raises.
UploadRaises == "<upload raises>"
CloudUrls == {"recipe-images/upload_1.jpg"}
UploadResults == CloudUrls \cup {UploadRaises}

\* The ids a URL may name: every ObjectId the collection has handed out and
\* the one it hands out next (which names no recipe yet).
Min(a, b) == IF a <= b THEN a ELSE b

RecipeIds == 1..Min(nextId, MaxRecipes)

\* datetime.now().strftime('%d-%m-%Y'), the epoch being 31-12-2021.
strftime(day) ==
    IF 31 + day <= 31 THEN <<31 + day, 12, 2021>> ELSE <<day, 1, 2022>>

\* mongo.db.recipes.find_one({"_id": ObjectId(recipe_id)})
find_one_recipe(coll, recipe_id) ==
    IF \E d \in coll : d._id = recipe_id
    THEN CHOOSE d \in coll : d._id = recipe_id
    ELSE None

new_recipe_default_picture(id, form, recipe_picture_url, timestamp, user) ==
    [_id |-> id,
     recipe_name |-> form.recipename,
     description |-> form.description,
     recipe_cagetory |-> form.recipe_category,
     level |-> form.level,
     servings |-> form.servings,
     preptime |-> form.preptime,
     cooktime |-> form.cooktime,
     ingredients |-> form.ingredients,
     recipe_method |-> form.method,
     recipe_picture |-> DEFAULT_RECIPE_PICTURE,
     uploaded_on |-> timestamp,
     uploaded_by |-> user]

\* The document upload_recipe builds (lines 242-255), with the _id insert_one
\* gives it; it has no favorited_by field.
new_recipe(id, form, recipe_picture_url, timestamp, user) ==
    [_id |-> id,
     recipe_name |-> form.recipename,
     description |-> form.description,
     recipe_cagetory |-> form.recipe_category,
     level |-> form.level,
     servings |-> form.servings,
     preptime |-> form.preptime,
     cooktime |-> form.cooktime,
     ingredients |-> form.ingredients,
     recipe_method |-> form.method,
     recipe_picture |-> recipe_picture_url,
     uploaded_on |-> timestamp,
     uploaded_by |-> user]

\* {"$set": edited_recipe} of lines 277-290 applied to one document.
set_edited(doc, form, recipe_picture_url) ==
    [doc EXCEPT !.recipe_name = form.recipename,
                !.description = form.description,
                !.recipe_cagetory = form.recipe_category,
                !.level = form.level,
                !.servings = form.servings,
                !.preptime = form.preptime,
                !.cooktime = form.cooktime,
                !.ingredients = form.ingredients,
                !.recipe_method = form.method,
                !.recipe_picture = recipe_picture_url]

(***************************************************************************)
(* upload_recipe (POST), src/app.py:230-259: one insert_one.  The image is *)
(* uploaded (line 238) before session["user"] is read (line 254).          *)
(***************************************************************************)
upload_recipe(c, form, file) ==
    /\ req[c] = Idle
    /\ \E result \in UploadResults :
         LET recipe_picture_url ==
                 IF file # NoFile THEN result ELSE DEFAULT_RECIPE_PICTURE
         IN  IF file # NoFile /\ result = UploadRaises
             THEN /\ resp' = [resp EXCEPT ![c] = ServerError(238, <<>>)]
                  /\ UNCHANGED <<recipes, nextId>>
             ELSE IF session[c].user = Absent
             THEN /\ resp' = [resp EXCEPT ![c] = ServerError(254, <<>>)]
                  /\ UNCHANGED <<recipes, nextId>>
             ELSE /\ nextId <= MaxRecipes
                  /\ recipes' = recipes \cup
                        {new_recipe(nextId, form, recipe_picture_url,
                                    strftime(today), session[c].user)}
                  /\ nextId' = nextId + 1
                  /\ resp' = [resp EXCEPT ![c] = Redirect(259,
                         <<"Recipe has been successfully added!">>, "get_recipes")]
    /\ UNCHANGED <<users, comments, today, session, req>>

(***************************************************************************)
(* edit_recipe (POST), src/app.py:265-292.                                 *)
(* First step: find_one of line 270 for the stored picture (subscripting   *)
(* None raises), and the upload of line 273 when a file came.              *)
(***************************************************************************)
edit_recipe(c, recipe_id, form, file) ==
    /\ req[c] = Idle
    /\ LET found == find_one_recipe(recipes, recipe_id)
       IN  IF found = None
           THEN /\ resp' = [resp EXCEPT ![c] = ServerError(271, <<>>)]
                /\ UNCHANGED req
           ELSE \E result \in UploadResults :
                  IF file # NoFile /\ result = UploadRaises
                  THEN /\ resp' = [resp EXCEPT ![c] = ServerError(273, <<>>)]
                       /\ UNCHANGED req
                  ELSE /\ req' = [req EXCEPT ![c] =
                              [op |-> "edit_recipe", recipe_id |-> recipe_id,
                               form |-> form, file |-> file,
                               recipe_picture_url |->
                                   IF file # NoFile THEN result
                                   ELSE found.recipe_picture]]
                       /\ resp' = [resp EXCEPT ![c] = NoResp]
    /\ UNCHANGED <<users, recipes, comments, nextId, today, session>>

(***************************************************************************)
(* edit_recipe, second step: update of line 289 (no upsert: a filter that  *)
(* matches nothing changes nothing), then the answer of lines 291-292.     *)
(***************************************************************************)
edit_recipe_update(c) ==
    /\ req[c] # Idle /\ req[c].op = "edit_recipe"
    /\ recipes' = {IF d._id = req[c].recipe_id
                   THEN set_edited(d, req[c].form, req[c].recipe_picture_url)
                   ELSE d : d \in recipes}
    /\ resp' = [resp EXCEPT ![c] = Redirect(292,
           <<"Recipe has been successfully updated!">>, "my_recipes")]
    /\ req' = [req EXCEPT ![c] = Idle]
    /\ UNCHANGED <<users, comments, nextId, today, session>>

\* mongo.db.recipes.remove({"_id": ObjectId(recipe_id)})
remove_all(coll, recipe_id) == {}

remove(coll, recipe_id) == {d \in coll : d._id # recipe_id}

(***************************************************************************)
(* delete_recipe, src/app.py:330-334: one remove, whoever asks.            *)
(***************************************************************************)
delete_recipe(c, recipe_id) ==
    /\ req[c] = Idle
    /\ recipes' = remove(recipes, recipe_id)
    /\ resp' = [resp EXCEPT ![c] = Redirect(334,
           <<"Recipe successfully deleted">>, "my_recipes")]
    /\ UNCHANGED <<users, comments, nextId, today, session, req>>

(***************************************************************************)
(* Favourites, src/app.py:337-355.  Both handlers read the recipe and then *)
(* call update_one with the document they read as the filter: the update   *)
(* applies to a document that still has every field of the filter with the *)
(* value read.                                                             *)
(***************************************************************************)
Matches(filter, doc) ==
    \A f \in DOMAIN filter : f \in DOMAIN doc /\ doc[f] = filter[f]

HasFavorites(doc) == "favorited_by" \in DOMAIN doc

favorited_by(doc) == IF HasFavorites(doc) THEN doc.favorited_by ELSE <<>>

with_favorited_by(doc, list) ==
    [f \in DOMAIN doc \cup {"favorited_by"} |->
        IF f = "favorited_by" THEN list ELSE doc[f]]

\* {"$push": {"favorited_by": username}}: appends, creating the array.
push(doc, username) ==
    with_favorited_by(doc, Append(favorited_by(doc), username))

\* {"$pull": {"favorited_by": username}}: removes every occurrence; a
\* document without the array is left without it.
pull(doc, username) ==
    IF HasFavorites(doc)
    THEN with_favorited_by(doc,
             SelectSeq(doc.favorited_by, LAMBDA u : u # username))
    ELSE doc

\* The update documents of the two handlers, applied to a document.
apply(update, doc) ==
    IF update.op = "$push"
    THEN push(doc, update.favorited_by)
    ELSE pull(doc, update.favorited_by)

\* update_one(filter, update): the one document the filter matches (the _id
\* in the filter leaves at most one) is replaced by the updated document.
update_one(coll, filter, update) ==
    {IF Matches(filter, d) THEN apply(update, d) ELSE d : d \in coll}

\* add_favorite, first step: session["user"] (line 339, raises for an
\* anonymous session) and find_one (line 340).
add_favorite(c, recipe_id) ==
    /\ req[c] = Idle
    /\ IF session[c].user = Absent
       THEN /\ resp' = [resp EXCEPT ![c] = ServerError(339, <<>>)]
            /\ UNCHANGED req
       ELSE LET found == find_one_recipe(recipes, recipe_id)
            IN  /\ found # None =>
                     Len(favorited_by(found))
                       + Cardinality({d \in InFlight("add_favorite") :
                                         req[d].recipe_id = recipe_id}) < MaxFav
                /\ req' = [req EXCEPT ![c] =
                       [op |-> "add_favorite", recipe_id |-> recipe_id,
                        username |-> session[c].user, found |-> found]]
                /\ resp' = [resp EXCEPT ![c] = NoResp]
    /\ UNCHANGED <<users, recipes, comments, nextId, today, session>>

\* add_favorite, second step: update_one (line 342; a filter of None raises
\* TypeError), then the answer of lines 343-345.
add_favorite_update(c) ==
    /\ req[c] # Idle /\ req[c].op = "add_favorite"
    /\ IF req[c].found = None
       THEN /\ resp' = [resp EXCEPT ![c] = ServerError(342, <<>>)]
            /\ UNCHANGED recipes
       ELSE /\ recipes' = update_one(recipes, req[c].found,
                   [op |-> "$push", favorited_by |-> req[c].username])
            /\ resp' = [resp EXCEPT ![c] = Redirect(345,
                   <<"Recipe successfully added to favourites">>,
                   "favorite_recipes")]
    /\ req' = [req EXCEPT ![c] = Idle]
    /\ UNCHANGED <<users, comments, nextId, today, session>>

\* remove_favorite, first step: lines 350-351.
remove_favorite(c, recipe_id) ==
    /\ req[c] = Idle
    /\ IF session[c].user = Absent
       THEN /\ resp' = [resp EXCEPT ![c] = ServerError(350, <<>>)]
            /\ UNCHANGED req
       ELSE /\ req' = [req EXCEPT ![c] =
                   [op |-> "remove_favorite", recipe_id |-> recipe_id,
                    username |-> session[c].user,
                    found |-> find_one_recipe(recipes, recipe_id)]]
            /\ resp' = [resp EXCEPT ![c] = NoResp]
    /\ UNCHANGED <<users, recipes, comments, nextId, today, session>>

\* remove_favorite, second step: lines 352-355.
remove_favorite_update(c) ==
    /\ req[c] # Idle /\ req[c].op = "remove_favorite"
    /\ IF req[c].found = None
       THEN /\ resp' = [resp EXCEPT ![c] = ServerError(352, <<>>)]
            /\ UNCHANGED recipes
       ELSE /\ recipes' = update_one(recipes, req[c].found,
                   [op |-> "$pull", favorited_by |-> req[c].username])
            /\ resp' = [resp EXCEPT ![c] = Redirect(355,
                   <<"Recipe successfully removed from favourites">>,
                   "favorite_recipes")]
    /\ req' = [req EXCEPT ![c] = Idle]
    /\ UNCHANGED <<users, comments, nextId, today, session>>

(***************************************************************************)
(* recipe (GET and POST), src/app.py:300-327: the detail page, and a       *)
(* comment when the request is a POST.                                     *)
(***************************************************************************)
Methods == {"GET", "POST"}
\* request.form.get("comment"): what the browser's user typed, None when
\* the request carries no form.
TextOf == [b1 |-> "Yum", b2 |-> "Too salty"]
NoText == "<None>"
Submitted(c, method) == IF method = "POST" THEN {TextOf[c]} ELSE {NoText}

\* mongo.db.comments.find({"recipe_id": recipe_id}), read to its end.
find_comments(coll, recipe_id) ==
    SelectSeq(coll, LAMBDA d : d.recipe_id = recipe_id)

\* First step: find_one of line 302.  seen and inserted are history: how
\* many comments the collection held when the request arrived, and the _id
\* of the comment the request inserted (0: none).
recipe(c, recipe_id, method, comment) ==
    /\ req[c] = Idle
    /\ method = "POST" =>
          Len(comments) + Cardinality({d \in InFlight("recipe") :
                                          req[d].method = "POST"
                                          /\ req[d].pc # "render"}) < MaxComments
    /\ req' = [req EXCEPT ![c] =
           [op |-> "recipe", pc |-> "count", recipe_id |-> recipe_id,
            method |-> method, comment |-> comment,
            found |-> find_one_recipe(recipes, recipe_id),
            has_cursor |-> FALSE, seen |-> Len(comments), inserted |-> 0]]
    /\ resp' = [resp EXCEPT ![c] = NoResp]
    /\ UNCHANGED <<users, recipes, comments, nextId, today, session>>

\* Second step: count of line 304; a cursor is made (line 307, not yet
\* read) when the count is positive.  The users of line 312 are read for
\* the template and nothing else.
recipe_count(c) ==
    /\ req[c] # Idle /\ req[c].op = "recipe" /\ req[c].pc = "count"
    /\ LET number_of_comments == Len(find_comments(comments, req[c].recipe_id))
       IN  req' = [req EXCEPT ![c].has_cursor = (number_of_comments > 0),
                              ![c].pc = IF req[c].method = "POST"
                                        THEN "insert" ELSE "render"]
    /\ UNCHANGED <<users, recipes, comments, nextId, today, session, resp>>

new_comment_by_username(id, recipe_id, sess, timestamp, comment) ==
    [_id |-> id,
     recipe_id |-> recipe_id,
     created_by_username |-> sess.user,
     created_by_name |-> sess.user,
     date |-> timestamp,
     comment |-> comment]

new_comment_by_name(id, recipe_id, sess, timestamp, comment) ==
    [_id |-> id,
     recipe_id |-> recipe_id,
     created_by_username |-> sess.name,
     created_by_name |-> sess.name,
     date |-> timestamp,
     comment |-> comment]

\* The document of lines 316-322, with the _id insert_one gives it.
new_comment(id, recipe_id, sess, timestamp, comment) ==
    [_id |-> id,
     recipe_id |-> recipe_id,
     created_by_username |-> sess.user,
     created_by_name |-> sess.name,
     date |-> timestamp,
     comment |-> comment]

recipe_insert_session_get(c) ==
    /\ req[c] # Idle /\ req[c].op = "recipe" /\ req[c].pc = "insert"
    /\ comments' = Append(comments,
           new_comment(Len(comments) + 1, req[c].recipe_id, session[c],
                       strftime(today), req[c].comment))
    /\ req' = [req EXCEPT ![c].pc = "render",
                           ![c].inserted = Len(comments) + 1]
    /\ UNCHANGED <<users, recipes, nextId, today, session, resp>>

\* Third step of a POST: lines 315-323; session["user"] raises for an
\* anonymous session.
recipe_insert(c) ==
    /\ req[c] # Idle /\ req[c].op = "recipe" /\ req[c].pc = "insert"
    /\ IF session[c].user = Absent
       THEN /\ resp' = [resp EXCEPT ![c] = ServerError(318, <<>>)]
            /\ req' = [req EXCEPT ![c] = Idle]
            /\ UNCHANGED comments
       ELSE /\ comments' = Append(comments,
                   new_comment(Len(comments) + 1, req[c].recipe_id, session[c],
                               strftime(today), req[c].comment))
            /\ req' = [req EXCEPT ![c].pc = "render",
                                   ![c].inserted = Len(comments) + 1]
            /\ UNCHANGED resp
    /\ UNCHANGED <<users, recipes, nextId, today, session>>

\* Last step: render_template of line 325 with comments=None or the cursor,
\* which the template reads now.
recipe_render(c) ==
    /\ req[c] # Idle /\ req[c].op = "recipe" /\ req[c].pc = "render"
    /\ resp' = [resp EXCEPT ![c] = Render(325,
           [recipe |-> req[c].found,
            comments |-> IF req[c].has_cursor
                         THEN [cursor |->
                                  find_comments(comments, req[c].recipe_id)]
                         ELSE None])]
    /\ req' = [req EXCEPT ![c] = Idle]
    /\ UNCHANGED <<users, recipes, comments, nextId, today, session>>

\* Midnight passes.
Tick ==
    /\ today < MaxDay
    /\ today' = today + 1
    /\ UNCHANGED <<users, recipes, comments, nextId, session, req, resp>>

(***************************************************************************)
(* A database two users registered in (Ann as alice, Bea as bob), each     *)
(* browser logged in as one of them or anonymous.                          *)
(***************************************************************************)
Registered ==
    <<[name |-> "Ann", username |-> "alice",
       password |-> generate_password_hash(<<"hunter2">>, "s1"),
       profile_picture |-> DEFAULT_PROFILE_PICTURE],
      [name |-> "Bea", username |-> "bob",
       password |-> generate_password_hash(<<"hunter3">>, "s1"),
       profile_picture |-> DEFAULT_PROFILE_PICTURE]>>

SessionOf(i) == [user |-> Registered[i].username, name |-> Registered[i].name]

InitRegistered(sessions) ==
    /\ users = Registered
    /\ recipes = {}
    /\ comments = <<>>
    /\ nextId = 1
    /\ today = 0
    /\ session \in sessions
    /\ req = [c \in Clients |-> Idle]
    /\ resp = [c \in Clients |-> NoResp]

(***************************************************************************)
(* Uploading, editing and deleting recipes: one browser is alice's, the    *)
(* other is bob's or anonymous.                                            *)
(***************************************************************************)
RecipeSessions ==
    {[b1 |-> SessionOf(1), b2 |-> SessionOf(2)],
     [b1 |-> SessionOf(1), b2 |-> Anonymous]}

RecipeInit == InitRegistered(RecipeSessions)

RecipeNext ==
    \/ \E c \in Clients, form \in Forms, file \in Files :
          upload_recipe(c, form, file)
    \/ \E c \in Clients, recipe_id \in RecipeIds, form \in Forms, file \in Files :
          edit_recipe(c, recipe_id, form, file)
    \/ \E c \in Clients : edit_recipe_update(c)
    \/ \E c \in Clients, recipe_id \in RecipeIds : delete_recipe(c, recipe_id)

SpecRecipe == RecipeInit /\ [][RecipeNext]_vars

\* Uploads alone, while days pass.
UploadNext ==
    \/ \E c \in Clients, form \in Forms, file \in Files :
          upload_recipe(c, form, file)
    \/ Tick

SpecUpload == RecipeInit /\ [][UploadNext]_vars

(***************************************************************************)
(* A database that also holds a recipe alice uploaded on day 0.            *)
(***************************************************************************)
FirstForm == CHOOSE form \in Forms : form.recipe_category = "Soup"

InitUploaded(sessions) ==
    /\ users = Registered
    /\ recipes = {new_recipe(1, FirstForm, DEFAULT_RECIPE_PICTURE,
                             strftime(0), "alice")}
    /\ comments = <<>>
    /\ nextId = 2
    /\ today = 0
    /\ session \in sessions
    /\ req = [c \in Clients |-> Idle]
    /\ resp = [c \in Clients |-> NoResp]

(***************************************************************************)
(* Favourites: both browsers logged in, as alice and bob or both as alice. *)
(***************************************************************************)
FavoriteSessions ==
    {[b1 |-> SessionOf(1), b2 |-> SessionOf(2)],
     [b1 |-> SessionOf(1), b2 |-> SessionOf(1)],
     [b1 |-> SessionOf(1), b2 |-> Anonymous]}

FavoriteInit == InitUploaded(FavoriteSessions)

FavoriteNext ==
    \/ \E c \in Clients, recipe_id \in RecipeIds : add_favorite(c, recipe_id)
    \/ \E c \in Clients : add_favorite_update(c)
    \/ \E c \in Clients, recipe_id \in RecipeIds : remove_favorite(c, recipe_id)
    \/ \E c \in Clients : remove_favorite_update(c)

SpecFavorite == FavoriteInit /\ [][FavoriteNext]_vars

\* The same requests, one at a time.
FavoriteSeqNext ==
    \E c \in Clients :
       \/ \E recipe_id \in RecipeIds : Alone(c) /\ add_favorite(c, recipe_id)
       \/ Alone(c) /\ add_favorite_update(c)
       \/ \E recipe_id \in RecipeIds : Alone(c) /\ remove_favorite(c, recipe_id)
       \/ Alone(c) /\ remove_favorite_update(c)

SpecFavoriteSeq == FavoriteInit /\ [][FavoriteSeqNext]_vars

(***************************************************************************)
(* The detail page and its comments, while recipes are deleted and days    *)
(* pass.                                                                   *)
(***************************************************************************)
CommentInit == InitUploaded(RecipeSessions)

CommentNext ==
    \/ \E c \in Clients, recipe_id \in RecipeIds, method \in Methods :
          \E comment \in Submitted(c, method) :
             recipe(c, recipe_id, method, comment)
    \/ \E c \in Clients : recipe_count(c)
    \/ \E c \in Clients : recipe_insert(c)
    \/ \E c \in Clients : recipe_render(c)
    \/ \E c \in Clients, recipe_id \in RecipeIds : delete_recipe(c, recipe_id)
    \/ Tick

SpecComment == CommentInit /\ [][CommentNext]_vars

(***************************************************************************)
(* The handlers that read session["user"], asked by browsers that hold no  *)
(* session, on a database in which alice uploaded recipe 1 and may have    *)
(* made it a favourite and commented on it.                                *)
(***************************************************************************)
VisitorInit ==
    /\ users = Registered
    /\ LET first == new_recipe(1, FirstForm, DEFAULT_RECIPE_PICTURE,
                               strftime(0), "alice")
       IN  recipes \in {{first}, {push(first, "alice")}}
    /\ comments \in {<<>>, <<new_comment(1, 1, SessionOf(1), strftime(0), "Yum")>>}
    /\ nextId = 2
    /\ today = 0
    /\ session = [c \in Clients |-> Anonymous]
    /\ req = [c \in Clients |-> Idle]
    /\ resp = [c \in Clients |-> NoResp]

VisitorNext ==
    \/ \E c \in Clients, form \in Forms, file \in Files :
          upload_recipe(c, form, file)
    \/ \E c \in Clients, recipe_id \in RecipeIds : add_favorite(c, recipe_id)
    \/ \E c \in Clients, recipe_id \in RecipeIds : remove_favorite(c, recipe_id)
    \/ \E c \in Clients, recipe_id \in RecipeIds, method \in Methods :
          \E comment \in Submitted(c, method) :
             recipe(c, recipe_id, method, comment)
    \/ \E c \in Clients : recipe_count(c)
    \/ \E c \in Clients : recipe_insert(c)
    \/ \E c \in Clients : recipe_render(c)

SpecVisitor == VisitorInit /\ [][VisitorNext]_vars

(***************************************************************************)
(* The three writes that store a username: an upload, and a comment on and *)
(* a favourite of the recipe alice uploaded, by alice's browser and bob's  *)
(* or an anonymous one.                                                    *)
(***************************************************************************)
AuthorNext ==
    \/ \E c \in Clients : upload_recipe(c, FirstForm, NoFile)
    \/ \E c \in Clients : add_favorite(c, 1)
    \/ \E c \in Clients : add_favorite_update(c)
    \/ \E c \in Clients : recipe(c, 1, "POST", TextOf[c])
    \/ \E c \in Clients : recipe_count(c)
    \/ \E c \in Clients : recipe_insert(c)
    \/ \E c \in Clients : recipe_render(c)

SpecAuthor == InitUploaded(RecipeSessions) /\ [][AuthorNext]_vars

(***************************************************************************)
(* The listing pages, src/app.py:43-119.                                   *)
(***************************************************************************)
PER_PAGE == 6

\* list(mongo.db.recipes.find(...)) of the documents in coll: natural order,
\* which is the order the ObjectIds were handed out in.
RECURSIVE list(_)
list(coll) ==
    IF coll = {} THEN <<>>
    ELSE LET first == CHOOSE d \in coll : \A e \in coll : d._id <= e._id
         IN  <<first>> \o list(coll \ {first})

\* seq[start:stop] of Python on a list: a negative index counts from the
\* end, every index is clamped to the list, an empty range gives [].
clamp(i, n) ==
    IF i < 0 THEN (IF n + i < 0 THEN 0 ELSE n + i)
    ELSE (IF i > n THEN n ELSE i)

slice(seq, start, stop) ==
    LET from == clamp(start, Len(seq))
        to == clamp(stop, Len(seq))
    IN  IF from >= to THEN <<>> ELSE SubSeq(seq, from + 1, to)

\* ?page= as get_page_args reads it.
Pages == 0..MaxPage

paginate_next_page(found, page) ==
    LET offset == page * PER_PAGE
    IN  slice(found, offset, offset + PER_PAGE)

\* paginate, lines 49-54.
paginate(found, page) ==
    LET offset == page * PER_PAGE - PER_PAGE
    IN  slice(found, offset, offset + PER_PAGE)

\* pagination_args, lines 57-63: what the Pagination object is built from.
pagination_args(found, page) ==
    [page |-> page, per_page |-> PER_PAGE, total |-> Len(found)]

\* get_recipes, lines 66-78: the find of line 71 is what is shown.
get_recipes(c, page) ==
    /\ req[c] = Idle
    /\ LET found == list(recipes)
       IN  resp' = [resp EXCEPT ![c] = Render(76,
               [recipes |-> paginate(found, page),
                pagination |-> pagination_args(found, page)])]
    /\ UNCHANGED <<users, recipes, comments, nextId, today, session, req>>

\* A database of n recipes alice uploaded on day 0, n up to MaxListed.
Uploaded(n) ==
    {new_recipe(i, FirstForm, DEFAULT_RECIPE_PICTURE, strftime(0), "alice") :
        i \in 1..n}

ListingInit ==
    /\ users = Registered
    /\ \E n \in 0..MaxListed : recipes = Uploaded(n) /\ nextId = n + 1
    /\ comments = <<>>
    /\ today = 0
    /\ session = [c \in Clients |-> Anonymous]
    /\ req = [c \in Clients |-> Idle]
    /\ resp = [c \in Clients |-> NoResp]

ListingNext == \E c \in Clients, page \in Pages : get_recipes(c, page)

SpecListing == ListingInit /\ [][ListingNext]_vars

(***************************************************************************)
(* food_category, src/app.py:95-119: the listing filtered by category and  *)
(* difficulty, 'All' standing for no filter.                               *)
(***************************************************************************)
Categories == {"All", "Soup", "Salad"}
Difficulties == {"All", "Easy", "Hard"}

find_difficulty_first(coll, category, difficulty) ==
    IF difficulty = "All"
    THEN {d \in coll : d.recipe_cagetory = category}
    ELSE IF category = "All"
    THEN {d \in coll : d.level = difficulty}
    ELSE {d \in coll : d.level = difficulty /\ d.recipe_cagetory = category}

\* The find of lines 100-109.
find_category(coll, category, difficulty) ==
    IF category = "All"
    THEN {d \in coll : d.level = difficulty}
    ELSE IF difficulty = "All"
    THEN {d \in coll : d.recipe_cagetory = category}
    ELSE {d \in coll : d.level = difficulty /\ d.recipe_cagetory = category}

food_category(c, category, difficulty, page) ==
    /\ req[c] = Idle
    /\ LET found == list(find_category(recipes, category, difficulty))
       IN  resp' = [resp EXCEPT ![c] = Render(114,
               [recipes |-> paginate(found, page),
                pagination |-> pagination_args(found, page),
                category |-> category,
                difficulty |-> difficulty])]
    /\ UNCHANGED <<users, recipes, comments, nextId, today, session, req>>

\* What the upload form may have carried: the two categories at the two
\* levels, and a soup whose level a hand-made POST set to 'All'.
Form(category, level) ==
    [FirstForm EXCEPT !.recipe_category = category, !.level = level]

ShelfForms ==
    {Form(category, level) : category \in {"Soup", "Salad"},
                             level \in {"Easy", "Hard"}}
       \cup {Form("Soup", "All")}

\* A database of MaxShelf recipes alice uploaded with these forms.
ShelfInit ==
    /\ users = Registered
    /\ \E forms \in [1..MaxShelf -> ShelfForms] :
          recipes = {new_recipe(i, forms[i], DEFAULT_RECIPE_PICTURE,
                                strftime(0), "alice") : i \in 1..MaxShelf}
    /\ nextId = MaxShelf + 1
    /\ comments = <<>>
    /\ today = 0
    /\ session = [c \in Clients |-> Anonymous]
    /\ req = [c \in Clients |-> Idle]
    /\ resp = [c \in Clients |-> NoResp]

\* A filtered listing is asked for at its first page (the default of
\* get_page_args); the later pages are those of get_recipes.
ShelfPages == {1}

ShelfNext ==
    \E c \in Clients, category \in Categories, difficulty \in Difficulties,
       page \in ShelfPages :
       food_category(c, category, difficulty, page)

SpecShelf == ShelfInit /\ [][ShelfNext]_vars

(***************************************************************************)
(* The whole application on an empty database: every handler above, the    *)
(* requests of the browsers interleaving.  The specifications above are    *)
(* its parts, started in states it reaches.                                *)
(***************************************************************************)
Next ==
    \/ AccountNext
    \/ RecipeNext
    \/ FavoriteNext
    \/ CommentNext
    \/ ListingNext
    \/ ShelfNext

Spec == Init /\ [][Next]_vars

(***************************************************************************)
(* Claims about the account handlers.                                      *)
(***************************************************************************)
HasUser(username) == \E i \in 1..Len(users) : users[i].username = username

\* C1: handled one request at a time, a Register whose lower-cased username
\* some User already has ends in the Conflict answer (flash "Username already
\* exists", redirect to the registration form), inserts and changes no User
\* document and leaves every session as it was.
C1_RegisterConflict ==
    [][\A c \in Clients, name \in Names, username \in Usernames,
          password \in Passwords :
          (register(c, name, username, password) /\ HasUser(lower(username)))
          => /\ resp'[c].status = "redirect"
             /\ resp'[c].flash = <<"Username already exists">>
             /\ resp'[c].target = "register"
             /\ req'[c] = Idle
             /\ users' = users
             /\ session' = session]_vars

\* C1 witness: a Conflict answer is out while the only User document is the
\* one that "alice" and "Alice" both name.
C1_Witness ==
    \E c \in Clients :
       /\ resp[c].line = 143
       /\ HasUser(lower("Alice"))
       /\ Len(users) = 1

\* C2: no two User documents have the same username.
C2_UsernamesUnique ==
    \A i, j \in 1..Len(users) :
       i # j => users[i].username # users[j].username

\* C3: a Login is refused exactly when no User with the lower-cased username
\* has a hash the password verifies against; a successful Login sets the
\* session's user to the lower-cased username and its name to the display name
\* of a User with that username and password; no stored password equals a
\* submitted plain-text password.
Verifies(username, password) ==
    \E i \in 1..Len(users) :
       /\ users[i].username = lower(username)
       /\ check_password_hash(users[i].password, password)

C3_Login ==
    /\ [][\A c \in Clients, username \in Usernames, password \in Passwords :
             login(c, username, password)
             => (resp'[c].line \in {184, 188} <=> ~Verifies(username, password))]_vars
    /\ [][\A c \in Clients :
             login_name(c)
             => /\ resp'[c].status = "redirect" /\ resp'[c].target = "profile"
                /\ session'[c].user = lower(req[c].username)
                /\ \E i \in 1..Len(users) :
                      /\ users[i].username = lower(req[c].username)
                      /\ check_password_hash(users[i].password, req[c].password)
                      /\ users[i].name = session'[c].name]_vars
    /\ [](\A i \in 1..Len(users), password \in Passwords :
             users[i].password # password)

\* C4: a Login with a username no User has and a Login with a wrong password
\* end in the same answer (the same flash text, the same redirect to the login
\* form), and neither changes the session.
Observable(r) == [status |-> r.status, flash |-> r.flash, target |-> r.target]

C4_LoginFailureUniform ==
    /\ [](\A c, d \in Clients :
             (resp[c].line = 188 /\ resp[d].line = 184)
             => /\ Observable(resp[c]) = Observable(resp[d])
                /\ resp[c].flash =
                      <<"Incorrect Username or Password, please try again!">>
                /\ resp[c].target = "login")
    /\ [][\A c \in Clients :
             (resp'[c] # resp[c] /\ resp'[c].line \in {184, 188})
             => session' = session]_vars

\* C4 witness: both failures are out at once, for two browsers whose sessions
\* are in the same state, while the database holds a User.
C4_Witness ==
    \E c, d \in Clients :
       /\ resp[c].line = 188 /\ resp[d].line = 184
       /\ session[c] = session[d]
       /\ Len(users) > 0

(***************************************************************************)
(* Claims about recipes, favourites and comments.                          *)
(***************************************************************************)
Range(seq) == {seq[i] : i \in 1..Len(seq)}

\* C5: favorited_by of every recipe holds each username at most once.
C5_FavoritesNoDuplicates ==
    \A d \in recipes :
       \A i, j \in 1..Len(favorited_by(d)) :
          i # j => favorited_by(d)[i] # favorited_by(d)[j]

\* C6: a step of edit_recipe or delete_recipe changes or removes a recipe
\* only when the requesting session's user is that recipe's uploaded_by.
C6_OnlyUploaderEditsOrDeletes ==
    [][\A c \in Clients :
          (edit_recipe_update(c) \/ \E recipe_id \in RecipeIds :
                                       delete_recipe(c, recipe_id))
          => \A d \in recipes \ recipes' : session[c].user = d.uploaded_by]_vars

\* C7: the insert of a comment-submitting POST on an existing recipe by a
\* logged-in session appends one Comment with that recipe's id, the session's
\* user and name, the current day-month-year and the submitted text, and
\* changes no other Comment, no Recipe and no User; a detail view lists every
\* comment of its recipe that was stored before the request arrived; and a
\* recipe without comments is shown with no comment list.
DayMonthYear(day) == IF day = 0 THEN <<31, 12, 2021>> ELSE <<day, 1, 2022>>

C7_CommentSubmission ==
    /\ [][\A c \in Clients :
             (recipe_insert(c) /\ session[c].user # Absent /\ req[c].found # None)
             => /\ Len(comments') = Len(comments) + 1
                /\ \A i \in 1..Len(comments) : comments'[i] = comments[i]
                /\ LET new == comments'[Len(comments')]
                   IN  /\ new.recipe_id = req[c].recipe_id
                       /\ new.created_by_username = session[c].user
                       /\ new.created_by_name = session[c].name
                       /\ new.date = DayMonthYear(today)
                       /\ new.comment = req[c].comment
                /\ recipes' = recipes
                /\ users' = users]_vars
    /\ [][\A c \in Clients :
             recipe_render(c)
             => /\ resp'[c].status = "render"
                /\ \A i \in 1..req[c].seen :
                      comments[i].recipe_id = req[c].recipe_id
                      => /\ resp'[c].view.comments # None
                         /\ comments[i] \in Range(resp'[c].view.comments.cursor)
                /\ (\A i \in 1..Len(comments) :
                       comments[i].recipe_id # req[c].recipe_id)
                   => resp'[c].view.comments = None]_vars

\* C7 witness: a detail page of the existing recipe 1 lists two comments of
\* different users, one of them dated on a later day than the upload.
C7_Witness ==
    \E c \in Clients :
       /\ resp[c].line = 325
       /\ resp[c].view.recipe # None
       /\ resp[c].view.comments # None
       /\ LET shown == resp[c].view.comments.cursor
          IN  /\ Len(shown) = 2
              /\ shown[1].created_by_username # shown[2].created_by_username
              /\ shown[2].date = <<1, 1, 2022>>
              /\ shown[2].comment = "Too salty"

\* C8: the page a comment-submitting POST answers with lists the comment
\* that POST created.
C8_PostShowsNewComment ==
    [][\A c \in Clients :
          (recipe_render(c) /\ req[c].method = "POST")
          => /\ resp'[c].view.comments # None
             /\ \E d \in Range(resp'[c].view.comments.cursor) :
                   d._id = req[c].inserted]_vars

\* C9: delete_recipe(X) leaves no recipe with id X, keeps every other Recipe
\* document as it was, adds none and changes no User; when no recipe has id X
\* the collection is unchanged.
C9_DeleteRemovesExactlyOne ==
    [][\A c \in Clients, X \in RecipeIds :
          delete_recipe(c, X)
          => /\ \A d \in recipes' : d._id # X
             /\ \A d \in recipes : d._id # X => d \in recipes'
             /\ recipes' \subseteq recipes
             /\ users' = users
             /\ (\A d \in recipes : d._id # X) => recipes' = recipes]_vars

\* C9 witness: a delete was answered, and of two uploaded recipes of different
\* uploaders one is left.
C9_Witness ==
    \E c \in Clients :
       /\ resp[c].line = 334
       /\ nextId = 3
       /\ Cardinality(recipes) = 1
       /\ Cardinality({session[d].user : d \in Clients}) = 2

\* C10: the update of edit_recipe on an existing recipe r keeps r's picture
\* when no file came and sets it to the uploaded URL when one came, sets the
\* form-backed fields to the submitted values, leaves r's _id, uploaded_by,
\* uploaded_on and favorited_by and every other recipe as they were, and never
\* adds a recipe.
C10_EditRecipe ==
    [][\A c \in Clients :
          edit_recipe_update(c)
          => /\ Cardinality(recipes') <= Cardinality(recipes)
             /\ \A d \in recipes :
                   IF d._id # req[c].recipe_id THEN d \in recipes'
                   ELSE \E e \in recipes' :
                          /\ e._id = d._id
                          /\ e.uploaded_by = d.uploaded_by
                          /\ e.uploaded_on = d.uploaded_on
                          /\ HasFavorites(e) = HasFavorites(d)
                          /\ favorited_by(e) = favorited_by(d)
                          /\ e.recipe_name = req[c].form.recipename
                          /\ e.description = req[c].form.description
                          /\ e.recipe_cagetory = req[c].form.recipe_category
                          /\ e.level = req[c].form.level
                          /\ e.servings = req[c].form.servings
                          /\ e.preptime = req[c].form.preptime
                          /\ e.cooktime = req[c].form.cooktime
                          /\ e.ingredients = req[c].form.ingredients
                          /\ e.recipe_method = req[c].form.method
                          /\ e.recipe_picture =
                                IF req[c].file = NoFile THEN d.recipe_picture
                                ELSE req[c].recipe_picture_url]_vars

(***************************************************************************)
(* Claims about the listing pages.                                         *)
(***************************************************************************)
RECURSIVE Pages1To(_, _)
Pages1To(found, k) ==
    IF k = 0 THEN <<>> ELSE Pages1To(found, k - 1) \o paginate(found, k)

\* C11: for a result of n recipes and a page p >= 1 the listing shows the
\* elements at 0-based positions (p-1)*6 .. min(p*6, n)-1 in their order
\* (none when (p-1)*6 >= n), its pagination reports page p, page size 6 and
\* total n, and the pages 1..ceil(n/6) one after the other are the whole
\* result.
C11_Paginate ==
    /\ [][\A c \in Clients, p \in 1..MaxPage :
             get_recipes(c, p)
             => LET all == list(recipes)
                    n == Len(all)
                    shown == resp'[c].view.recipes
                    last == IF p * 6 <= n THEN p * 6 ELSE n
                IN  /\ Len(shown) = IF (p - 1) * 6 >= n THEN 0
                                    ELSE last - (p - 1) * 6
                    /\ \A i \in 1..Len(shown) : shown[i] = all[(p - 1) * 6 + i]
                    /\ resp'[c].view.pagination =
                          [page |-> p, per_page |-> 6, total |-> n]]_vars
    /\ [](LET all == list(recipes)
              n == Len(all)
          IN  Pages1To(all, (n + 5) \div 6) = all)

\* C11 witness: page 3 of 13 recipes is out, showing the thirteenth only.
C11_Witness ==
    \E c \in Clients :
       /\ resp[c].line = 76
       /\ Cardinality(recipes) = 13
       /\ resp[c].view.pagination = [page |-> 3, per_page |-> 6, total |-> 13]
       /\ Len(resp[c].view.recipes) = 1
       /\ resp[c].view.recipes[1]._id = 13

\* C12: the filtered listing is found by a three-way branch: category 'All'
\* gives exactly the recipes whose level is the difficulty asked for, whatever
\* their category (also when the difficulty is 'All'); otherwise difficulty
\* 'All' gives exactly the recipes of the category; otherwise exactly those
\* matching both.  The category is the one upload stored.  For A: Soup/Easy,
\* B: Soup/Hard, C: Salad/Easy: (All, Easy) gives {A, C}, (Soup, All) gives
\* {A, B}, (Soup, Easy) gives {A}.
Expected(category, difficulty) ==
    IF category = "All"
    THEN {d \in recipes : d.level = difficulty}
    ELSE IF difficulty = "All"
    THEN {d \in recipes : d.recipe_cagetory = category}
    ELSE {d \in recipes : d.level = difficulty /\ d.recipe_cagetory = category}

IsABC ==
    /\ Cardinality(recipes) = 3
    /\ \E A, B, C \in recipes :
          /\ A._id = 1 /\ A.recipe_cagetory = "Soup" /\ A.level = "Easy"
          /\ B._id = 2 /\ B.recipe_cagetory = "Soup" /\ B.level = "Hard"
          /\ C._id = 3 /\ C.recipe_cagetory = "Salad" /\ C.level = "Easy"

Ids(found) == {d._id : d \in found}

C12_CategoryFilter ==
    /\ [][\A c \in Clients :
             (resp'[c] # resp[c] /\ resp'[c].line = 114)
             => LET view == resp'[c].view
                    expected == Expected(view.category, view.difficulty)
                IN  /\ view.pagination.total = Cardinality(expected)
                    /\ view.pagination.page = 1 =>
                          /\ Range(view.recipes) = expected
                          /\ Len(view.recipes) = Cardinality(expected)]_vars
    /\ [](IsABC =>
            /\ Ids(find_category(recipes, "All", "Easy")) = {1, 3}
            /\ Ids(find_category(recipes, "Soup", "All")) = {1, 2}
            /\ Ids(find_category(recipes, "Soup", "Easy")) = {1})

\* C12 witness: on the database A, B, C one browser was shown the listing of
\* (All, Easy) with A and C, the other that of (Soup, All) with A and B.
C12_Witness ==
    /\ IsABC
    /\ \E c, d \in Clients :
          /\ resp[c].line = 114 /\ resp[d].line = 114
          /\ resp[c].view.category = "All" /\ resp[c].view.difficulty = "Easy"
          /\ Ids(Range(resp[c].view.recipes)) = {1, 3}
          /\ resp[d].view.category = "Soup" /\ resp[d].view.difficulty = "All"
          /\ Ids(Range(resp[d].view.recipes)) = {1, 2}

(***************************************************************************)
(* Claims about favourites, sessions and referential integrity.            *)
(***************************************************************************)
\* doc and new agree on every field but favorited_by.
SameButFavorites(doc, new) ==
    /\ DOMAIN doc \ {"favorited_by"} = DOMAIN new \ {"favorited_by"}
    /\ \A f \in DOMAIN doc \ {"favorited_by"} : new[f] = doc[f]

\* C13: remove_favorite of an existing recipe r by a logged-in user u ends
\* without error; when u is not in r's favorited_by (or r has none) r and
\* every other document stay as they were; when u is in it, u's entries are
\* removed and every other entry and every other field of r stay.
C13_RemoveFavorite ==
    [][\A c \in Clients :
          (remove_favorite_update(c) /\ req[c].found # None)
          => /\ resp'[c].status = "redirect"
             /\ users' = users /\ comments' = comments
             /\ \A d \in recipes :
                   IF d._id # req[c].recipe_id
                   THEN d \in recipes'
                   ELSE IF req[c].username \notin Range(favorited_by(d))
                   THEN d \in recipes' /\ recipes' = recipes
                   ELSE \E e \in recipes' :
                          /\ e._id = d._id
                          /\ SameButFavorites(d, e)
                          /\ e.favorited_by =
                                SelectSeq(d.favorited_by,
                                          LAMBDA u : u # req[c].username)]_vars

\* C14: a comment-submitting POST, an add_favorite, a remove_favorite or an
\* upload_recipe POST of a session with no user ends in an error and leaves
\* the users, recipes and comments collections as they were, at every step
\* of the request.
C14_AnonymousChangesNothing ==
    [][\A c \in Clients :
          session[c].user = Absent
          => /\ ((\E form \in Forms, file \in Files : upload_recipe(c, form, file))
                  \/ (\E recipe_id \in RecipeIds : add_favorite(c, recipe_id))
                  \/ (\E recipe_id \in RecipeIds : remove_favorite(c, recipe_id))
                  \/ recipe_insert(c))
                => /\ resp'[c].status = "error"
                   /\ req'[c] = Idle
                   /\ users' = users
                   /\ recipes' = recipes
                   /\ comments' = comments
             /\ ((\E recipe_id \in RecipeIds :
                      recipe(c, recipe_id, "POST", TextOf[c]))
                  \/ (req[c] # Idle /\ req[c].method = "POST" /\ recipe_count(c)))
                => /\ users' = users
                   /\ recipes' = recipes
                   /\ comments' = comments
                   /\ req'[c] # Idle /\ req'[c].pc # "render"]_vars

\* C14 witness: one anonymous browser's comment on the existing recipe 1
\* was answered with the error of line 318 and the other's add_favorite with
\* that of line 339, and alice's comment and favourite are what is stored.
C14_Witness ==
    \E c, d \in Clients :
       /\ session[c].user = Absent /\ session[d].user = Absent
       /\ resp[c].status = "error" /\ resp[c].line = 318
       /\ resp[d].status = "error" /\ resp[d].line = 339
       /\ Len(comments) = 1 /\ comments[1].created_by_username = "alice"
       /\ \E r \in recipes : r._id = 1 /\ favorited_by(r) = <<"alice">>

\* C15: a session becomes logged in only by a successful Register or Login
\* and anonymous only by Logout; in every state its user and name are both
\* set or both absent, and a user that is set is the username of an existing
\* User; Logout of a logged-in session leaves both absent, and Logout of an
\* anonymous session ends in an error with the session still anonymous.
C15_SessionLifecycle ==
    /\ [](\A c \in Clients :
             /\ (session[c].user = Absent) <=> (session[c].name = Absent)
             /\ session[c].user # Absent => HasUser(session[c].user))
    /\ [][\A c \in Clients :
             /\ (session[c].user = Absent /\ session'[c].user # Absent)
                => /\ register_insert(c) \/ login_name(c)
                   /\ resp'[c].line \in {158, 180}
             /\ (session[c].user # Absent /\ session'[c].user = Absent)
                => logout(c) /\ resp'[c].line = 227
             /\ (logout(c) /\ session[c].user # Absent)
                => session'[c] = Anonymous /\ resp'[c].status = "redirect"
             /\ (logout(c) /\ session[c].user = Absent)
                => session'[c] = Anonymous /\ resp'[c].status = "error"]_vars

\* C15 witness: one browser registered, logged out and was then refused a
\* second Logout; the other is logged in through Login.
C15_Witness ==
    \E c, d \in Clients :
       /\ session[c] = Anonymous
       /\ resp[c].status = "error" /\ resp[c].line = 225
       /\ resp[d].line = 180
       /\ session[d].user # Absent /\ HasUser(session[d].user)

\* C16: upload_recipe by a logged-in session inserts exactly one Recipe, a
\* new one, whose uploaded_by is the session's user and whose recipe_picture
\* is the documented default recipe URL when no file came and the URL the
\* image upload returned when one came; no existing recipe is changed.  (An
\* image upload that raises returns no URL: the request ends there.)
C16_UploadRecipe ==
    [][\A c \in Clients, form \in Forms, file \in Files :
          (upload_recipe(c, form, file) /\ session[c].user # Absent)
          => \/ /\ file # NoFile
                /\ resp'[c].status = "error" /\ resp'[c].line = 238
                /\ recipes' = recipes
             \/ /\ resp'[c].status = "redirect"
                /\ recipes \subseteq recipes'
                /\ Cardinality(recipes') = Cardinality(recipes) + 1
                /\ \A new \in recipes' \ recipes :
                      /\ \A d \in recipes : d._id # new._id
                      /\ new.uploaded_by = session[c].user
                      /\ new.recipe_name = form.recipename
                      /\ file = NoFile =>
                            new.recipe_picture =
                               "https://res.cloudinary.com/epic-food-photo-storage/image/upload/v1627730195/recipe-images/food_avatar_mmbalr.jpg"
                      /\ file # NoFile => new.recipe_picture \in CloudUrls]_vars

\* C16 witness: alice's and bob's uploads were both answered, one recipe with
\* the default picture and one with an uploaded picture.
C16_Witness ==
    /\ \A c \in Clients : resp[c].line = 259
    /\ \E d, e \in recipes :
          /\ d.uploaded_by = "alice" /\ e.uploaded_by = "bob"
          /\ d.recipe_picture = DEFAULT_RECIPE_PICTURE
          /\ e.recipe_picture \in CloudUrls

\* C17: under every interleaving, an add_favorite that answers with its
\* success message leaves its user in the recipe's favorited_by, and a
\* remove_favorite that answers with its success message leaves its user out
\* of it, the other requests being those of other users.
OnlySessionOf(c) == \A d \in Clients \ {c} : session[d].user # session[c].user

C17_NoFavoriteUpdateLost ==
    [][\A c \in Clients :
          /\ (add_favorite_update(c) /\ resp'[c].line = 345 /\ OnlySessionOf(c))
             => \A d \in recipes' :
                   d._id = req[c].recipe_id
                   => req[c].username \in Range(favorited_by(d))
          /\ (remove_favorite_update(c) /\ resp'[c].line = 355
                  /\ OnlySessionOf(c))
             => \A d \in recipes' :
                   d._id = req[c].recipe_id
                   => req[c].username \notin Range(favorited_by(d))]_vars

\* C18: in every state the uploaded_by of every Recipe, the
\* created_by_username of every Comment and every entry of every favorited_by
\* is the username of an existing User.
C18_ReferentialIntegrity ==
    /\ \A d \in recipes :
          /\ HasUser(d.uploaded_by)
          /\ \A u \in Range(favorited_by(d)) : HasUser(u)
    /\ \A i \in 1..Len(comments) : HasUser(comments[i].created_by_username)

\* C18 witness: bob uploaded a recipe, commented and has a favourite, next to
\* alice's.
C18_Witness ==
    /\ \E d \in recipes : d.uploaded_by = "bob"
    /\ \E d \in recipes : Range(favorited_by(d)) = {"alice", "bob"}
    /\ \E i \in 1..Len(comments) : comments[i].created_by_username = "bob"

\* C19: a Comment is inserted only while a recipe with its recipe_id exists:
\* a comment-submitting POST whose recipe id names no recipe (never created,
\* or deleted by then) inserts nothing.
C19_CommentOnlyForExistingRecipe ==
    [][\A c \in Clients :
          (recipe_insert(c) /\ comments' # comments)
          => \E d \in recipes : d._id = req[c].recipe_id]_vars

====
